---------------------------- MODULE Spec2Model ----------------------------
(***************************************************************************)
(* daw::integers::signed_integer<Bits>: fixed-width signed integers with   *)
(* checked / wrapped / saturated / unchecked arithmetic and a process-wide *)
(* registry of two error handlers (overflow, divide-by-zero).              *)
(*                                                                         *)
(* The model follows one block of a program at a time, as the test driver  *)
(* does ({ auto i0 = ...; i0 += i1; }):                                     *)
(*   pc = "idle"   no operand is alive; handlers may be (re)registered     *)
(*   pc = "ready"  an operand object of width Bits holding m_value exists  *)
(*   pc = "done"   one operation has run; op, arg_this, arg_rhs, result,   *)
(*                 calls and raised describe it                            *)
(* The library is synchronous and single-threaded: a registration call     *)
(* never runs inside an operation.                                         *)
(*                                                                         *)
(* TLC's integers are 32 bits wide, so the widths checked are 8 and 16;    *)
(* every operator is written for an arbitrary width w.                     *)
(*                                                                         *)
(* The sint_impl primitives (impl/daw_signed_impl.h) and the registry      *)
(* (impl/daw_signed_error_handling.h) follow sections 4.2, 4.3, 4.4 and 7  *)
(* of the specification; the member functions follow daw_signed.h.         *)
(***************************************************************************)
EXTENDS Integers, Sequences, FiniteSets, TLC

VARIABLES
    signed_overflow_handler,     \* the overflow slot of the registry
    signed_div_by_zero_handler,  \* the divide-by-zero slot of the registry
    last_overflow_registration,     \* argument of the latest call of
                                    \* register_signed_overflow_handler
    last_div_by_zero_registration,  \* argument of the latest call of
                                    \* register_signed_div_by_zero_handler
    pc,                          \* position in the current block
    Bits,                        \* width of the operand object
    m_value,                     \* m_private.value of the operand object
    op,                          \* the operation that ran last
    arg_this,                    \* value of *this when the operation was called
    arg_rhs,                     \* the operation's argument
    arg_bits,                    \* width of the argument's type
    result,                      \* {v}: the value returned; {}: nothing returned
    calls,                       \* handler invocations made by the operation
    raised                       \* the exception that left the operation

vars == <<signed_overflow_handler, signed_div_by_zero_handler,
          last_overflow_registration, last_div_by_zero_registration, pc, Bits,
          m_value, op, arg_this, arg_rhs, arg_bits, result, calls, raised>>

history == <<last_overflow_registration, last_div_by_zero_registration>>

block == <<pc, Bits, m_value, op, arg_this, arg_rhs, arg_bits, result, calls,
           raised>>

registry == <<signed_overflow_handler, signed_div_by_zero_handler>>

---------------------------------------------------------------------------
(* Bounds of the model *)

\* operands are drawn within Edge of min(), 0 and max()
Edge == 2

---------------------------------------------------------------------------
(* Width selector and ranges *)

Widths == {8, 16}

RECURSIVE TwoTo(_)
TwoTo(n) == IF n = 0 THEN 1 ELSE 2 * TwoTo(n - 1)

Pow2Table == [n \in 0 .. 17 |-> TwoTo(n)]

Pow2(n) == Pow2Table[n]

max(w) == Pow2(w - 1) - 1

min(w) == -Pow2(w - 1)

in_range(w, v) == min(w) <= v /\ v <= max(w)

\* static_cast<value_type>( v ): reduction modulo 2^w into the signed range
static_cast(w, v) == ((v + Pow2(w - 1)) % Pow2(w)) - Pow2(w - 1)

\* values used by the test driver (10 * 100, 300, -300)
TestValues == {10, 100, -100, 300, -300}

\* shift counts passed as int: negative, inside and beyond the width
ShiftCounts(w) == (-Edge) .. (w + Edge)

\* rotation counts passed as std::size_t
RotateCounts(w) == 0 .. (w + Edge)

ValuesTable ==
    [w \in Widths |->
        {v \in (min(w) .. min(w) + Edge) \cup (-Edge .. Edge)
                  \cup (max(w) - Edge .. max(w)) \cup TestValues :
            in_range(w, v)}]

\* the operand values drawn for width w
Values(w) == ValuesTable[w]

\* values passed as int by the conversion tests (12, 255, 5000, 55), and
\* values outside 16 bits
IntValues == {12, 55, 255, 5000, -5000, 40000, -40000}

\* values passed as unsigned (0xAAU, 0x55U, 255, 55555U)
UnsignedValues == {85, 170, 255, 55555}

\* the values drawn for the native operand, of iw bits, of a binary operator
NativeOperands(iw) ==
    {v \in TestValues \cup {-1, 0, 1, 2, min(iw), max(iw)} : in_range(iw, v)}

\* the values drawn for a native signed type of iw bits (8, 16, or int)
NativeValues(iw) == IF iw \in Widths THEN ValuesTable[iw] ELSE IntValues

---------------------------------------------------------------------------
(* Error handling: SignedIntegerErrorType, the registry, the notifiers *)

NoHandler == "nullptr"

Callbacks == {"error_handler", "other_handler"}

NoException == "none"

\* an exception that leaves a noexcept function ends the program
Terminate == "std::terminate"

Invocation(h, kind) == [handler |-> h, error_type |-> kind]

\* a notifier run against a slot: the registered callback is invoked with
\* the error kind and returns; with no callback the default raises
Notify(slot, kind, exception) ==
    IF slot = NoHandler
    THEN [calls |-> <<>>, raised |-> exception]
    ELSE [calls |-> <<Invocation(slot, kind)>>, raised |-> NoException]

on_signed_integer_overflow ==
    Notify(signed_overflow_handler, "Overflow",
           "signed_integer_overflow_exception")

on_signed_integer_div_by_zero ==
    Notify(signed_div_by_zero_handler, "DivideByZero",
           "signed_integer_div_by_zero_exception")

\* outcome of a primitive that detected nothing
Returns(v) == [value |-> v, calls |-> <<>>, raised |-> NoException]

\* outcome of a primitive after notification n: v when the handler returned
AfterNotify(n, v) == [value |-> v, calls |-> n.calls, raised |-> n.raised]

---------------------------------------------------------------------------
(* Overflow predicates (specification 4.2) *)

\* overflow iff the operands share a sign and the wrapped result's sign
\* differs from theirs
would_overflow_add(w, a, b) ==
    /\ (a < 0) = (b < 0)
    /\ (static_cast(w, a + b) < 0) # (a < 0)

\* overflow iff the operands differ in sign and the wrapped result's sign
\* differs from the minuend's
would_overflow_sub(w, a, b) ==
    /\ (a < 0) # (b < 0)
    /\ (static_cast(w, a - b) < 0) # (a < 0)

would_overflow_mul(w, a, b) == ~in_range(w, a * b)

would_overflow_neg(w, a) == a = min(w)

is_div_by_zero(b) == b = 0

would_overflow_div(w, a, b) == a = min(w) /\ b = -1

\* C++ integer division truncates toward zero; \div rounds down
Abs(v) == IF v < 0 THEN -v ELSE v

native_div(a, b) ==
    IF (a < 0) = (b < 0) THEN Abs(a) \div Abs(b) ELSE -(Abs(a) \div Abs(b))

native_rem(a, b) == a - b * native_div(a, b)

---------------------------------------------------------------------------
(* sint_impl primitives (specification 4.4).  Each yields the set of       *)
(* outcomes the call can have: [value, calls, raised].                     *)

DAW_DEFAULT_SIGNED_CHECKING == 0

wrapped_add(w, a, b) == {Returns(static_cast(w, a + b))}

wrapped_sub(w, a, b) == {Returns(static_cast(w, a - b))}

wrapped_mul(w, a, b) == {Returns(static_cast(w, a * b))}

checked_add(w, a, b) ==
    IF would_overflow_add(w, a, b)
    THEN {AfterNotify(on_signed_integer_overflow, static_cast(w, a + b))}
    ELSE {Returns(a + b)}

checked_sub(w, a, b) ==
    IF would_overflow_sub(w, a, b)
    THEN {AfterNotify(on_signed_integer_overflow, static_cast(w, a - b))}
    ELSE {Returns(a - b)}

checked_mul(w, a, b) ==
    IF would_overflow_mul(w, a, b)
    THEN {AfterNotify(on_signed_integer_overflow, static_cast(w, a * b))}
    ELSE {Returns(a * b)}

checked_neg(w, a) ==
    IF would_overflow_neg(w, a)
    THEN {AfterNotify(on_signed_integer_overflow, static_cast(w, -a))}
    ELSE {Returns(-a)}

\* the value an operation yields after its handler has returned from an
\* error with no wrapped result (a division by zero, a shift count outside
\* [0, w)) is left open by the specification: any value of the width,
\* drawn here from the operand, zero and the two bounds
Unspecified(w, a) == {a, 0, min(w), max(w)}

checked_div(w, a, b) ==
    IF is_div_by_zero(b)
    THEN {AfterNotify(on_signed_integer_div_by_zero, v) :
             v \in Unspecified(w, a)}
    ELSE IF would_overflow_div(w, a, b)
    THEN {AfterNotify(on_signed_integer_overflow,
                      static_cast(w, native_div(a, b)))}
    ELSE {Returns(native_div(a, b))}

\* whether the remainder of min() by -1 is reported as an overflow is left
\* open by the specification: both outcomes are kept
checked_rem(w, a, b) ==
    IF is_div_by_zero(b)
    THEN {AfterNotify(on_signed_integer_div_by_zero, v) :
             v \in Unspecified(w, a)}
    ELSE IF would_overflow_div(w, a, b)
    THEN {AfterNotify(on_signed_integer_overflow, 0), Returns(0)}
    ELSE {Returns(native_rem(a, b))}

\* a shift count below 0 or not below the width is an error of the checked
\* family; whether bits shifted out by a count in [0, w) are reported is left
\* open by the specification: both outcomes are kept
checked_shl(w, a, n) ==
    IF n < 0 \/ n >= w
    THEN {AfterNotify(on_signed_integer_overflow, v) : v \in Unspecified(w, a)}
    ELSE IF in_range(w, a * Pow2(n))
    THEN {Returns(a * Pow2(n))}
    ELSE {AfterNotify(on_signed_integer_overflow, static_cast(w, a * Pow2(n))),
          Returns(static_cast(w, a * Pow2(n)))}

\* >> on a signed value is an arithmetic shift: it rounds down
checked_shr(w, a, n) ==
    IF n < 0 \/ n >= w
    THEN {AfterNotify(on_signed_integer_overflow, v) : v \in Unspecified(w, a)}
    ELSE {Returns(a \div Pow2(n))}

\* saturation: the bound that the exact result went past
sat_add(w, a, b) ==
    IF would_overflow_add(w, a, b)
    THEN {Returns(IF a + b > 0 THEN max(w) ELSE min(w))}
    ELSE {Returns(a + b)}

sat_sub(w, a, b) ==
    IF would_overflow_sub(w, a, b)
    THEN {Returns(IF a - b > 0 THEN max(w) ELSE min(w))}
    ELSE {Returns(a - b)}

sat_mul(w, a, b) ==
    IF would_overflow_mul(w, a, b)
    THEN {Returns(IF a * b > 0 THEN max(w) ELSE min(w))}
    ELSE {Returns(a * b)}

\* a division by zero has no saturation value: it is notified as in the
\* checked family
sat_div(w, a, b) ==
    IF is_div_by_zero(b)
    THEN {AfterNotify(on_signed_integer_div_by_zero, v) :
             v \in Unspecified(w, a)}
    ELSE IF would_overflow_div(w, a, b)
    THEN {Returns(max(w))}
    ELSE {Returns(native_div(a, b))}

\* the compound operators' policy: checked when checking is enabled
debug_checked_add(w, a, b) ==
    IF DAW_DEFAULT_SIGNED_CHECKING = 0
    THEN checked_add(w, a, b) ELSE wrapped_add(w, a, b)

debug_checked_sub(w, a, b) ==
    IF DAW_DEFAULT_SIGNED_CHECKING = 0
    THEN checked_sub(w, a, b) ELSE wrapped_sub(w, a, b)

debug_checked_mul(w, a, b) ==
    IF DAW_DEFAULT_SIGNED_CHECKING = 0
    THEN checked_mul(w, a, b) ELSE wrapped_mul(w, a, b)

debug_checked_neg(w, a) ==
    IF DAW_DEFAULT_SIGNED_CHECKING = 0
    THEN checked_neg(w, a) ELSE {Returns(static_cast(w, -a))}

debug_checked_div(w, a, b) == checked_div(w, a, b)

debug_checked_rem(w, a, b) == checked_rem(w, a, b)

debug_checked_shl(w, a, n) == checked_shl(w, a, n)

debug_checked_shr(w, a, n) == checked_shr(w, a, n)

\* daw::cmp_equal, daw::cmp_less: comparison of the mathematical values
cmp_equal(a, b) == a = b

cmp_less(a, b) == a < b

cmp_not_equal(a, b) == a # b

cmp_less_equal(a, b) == a <= b

cmp_greater(a, b) == a > b

cmp_greater_equal(a, b) == a >= b

---------------------------------------------------------------------------
(* signed_integer<Bits> member functions: the outcomes of a call on an     *)
(* object of width w holding self                                          *)

operator_add_assign(w, self, rhs) == debug_checked_add(w, self, rhs)

operator_increment_unchecked(w, self) == wrapped_add(w, self, 1)

operator_increment(w, self) == debug_checked_add(w, self, 1)

add_checked_subtracting(w, self, rhs) == checked_sub(w, self, rhs)

add_checked_wrapping(w, self, rhs) == wrapped_add(w, self, rhs)

add_checked(w, self, rhs) == checked_add(w, self, rhs)

add_saturated_wrapping(w, self, rhs) == wrapped_add(w, self, rhs)

add_saturated(w, self, rhs) == sat_add(w, self, rhs)

operator_sub_assign_adding(w, self, rhs) == debug_checked_add(w, self, rhs)

operator_sub_assign(w, self, rhs) == debug_checked_sub(w, self, rhs)

sub_checked(w, self, rhs) == checked_sub(w, self, rhs)

sub_saturated_swapped(w, self, rhs) == sat_sub(w, rhs, self)

sub_saturated(w, self, rhs) == sat_sub(w, self, rhs)

operator_decrement(w, self) == debug_checked_sub(w, self, 1)

operator_mul_assign_wrapping(w, self, rhs) == wrapped_mul(w, self, rhs)

operator_mul_assign(w, self, rhs) == debug_checked_mul(w, self, rhs)

mul_checked(w, self, rhs) == checked_mul(w, self, rhs)

operator_div_assign_multiplying(w, self, rhs) ==
    debug_checked_mul(w, self, rhs)

operator_div_assign(w, self, rhs) == debug_checked_div(w, self, rhs)

div_checked_saturating(w, self, rhs) == sat_div(w, self, rhs)

div_checked(w, self, rhs) == checked_div(w, self, rhs)

operator_rem_assign(w, self, rhs) == debug_checked_rem(w, self, rhs)

rem_checked(w, self, rhs) == checked_rem(w, self, rhs)

operator_negate(w, self) == debug_checked_neg(w, self)

negate_checked_wrapping(w, self) == {Returns(static_cast(w, -self))}

negate_checked(w, self) == checked_neg(w, self)

operator_shl_assign(w, self, rhs) == debug_checked_shl(w, self, rhs)

\* a checked left shift that masks the count instead of reporting it
shl_checked_masking(w, self, rhs) ==
    {Returns(static_cast(w, self * Pow2(rhs % w)))}

shl_checked(w, self, rhs) == checked_shl(w, self, rhs)

operator_shr_assign(w, self, rhs) == debug_checked_shr(w, self, rhs)

shr_checked(w, self, rhs) == checked_shr(w, self, rhs)

\* width of the type an arithmetic expression on value_type operands has:
\* std::int8_t and std::int16_t operands are promoted to int
int_bits == 32

promoted(w) == IF w < int_bits THEN int_bits ELSE w

\* sint_impl::convertible_signed_int<value_type, I>, I signed of iw bits:
\* every value of I is a value of value_type
convertible_signed_int(w, iw) == iw <= w

\* explicit signed_integer( I v ) noexcept, I a signed type of iw bits:
\* stores static_cast<value_type>( v ) and, when I is not convertible,
\* notifies an overflow for v outside [min, max]; the default notifier's
\* exception cannot leave the noexcept constructor
signed_integer(w, iw, v) ==
    IF ~convertible_signed_int(w, iw) /\ ~in_range(w, v)
    THEN {[value |-> static_cast(w, v),
           calls |-> on_signed_integer_overflow.calls,
           raised |-> IF on_signed_integer_overflow.raised = NoException
                      THEN NoException ELSE Terminate]}
    ELSE {Returns(static_cast(w, v))}

\* v << n on int: defined for n in [0, int_bits) while the result is an int
shl_defined(v, n) ==
    /\ 0 <= n
    /\ n < int_bits
    /\ \/ v = 0
       \/ n <= int_bits - 2 /\ Abs(v) \div 2 < TwoTo(int_bits - 2 - n)

\* v >> n on int, n in [0, int_bits): an arithmetic shift
int_shr(v, n) ==
    IF n <= int_bits - 2 THEN v \div TwoTo(n) ELSE IF v < 0 THEN -1 ELSE 0

\* the int an undefined shift leaves: some value in or outside [min, max]
Undefined(w, a) == Unspecified(w, a) \cup {max(w) + 1}

\* return value( ) + rhs.value( ): the int sum becomes the result through
\* signed_integer( I )
add_unchecked(w, self, rhs) == signed_integer(w, promoted(w), self + rhs)

sub_unchecked(w, self, rhs) == signed_integer(w, promoted(w), self - rhs)

mul_uncheck(w, self, rhs) == signed_integer(w, promoted(w), self * rhs)

\* signed_integer( -value( ) )
negate_unchecked(w, self) == signed_integer(w, promoted(w), -self)

shl_unchecked(w, self, rhs) ==
    IF shl_defined(self, rhs)
    THEN signed_integer(w, promoted(w), self * TwoTo(rhs))
    ELSE UNION {signed_integer(w, promoted(w), u) : u \in Undefined(w, self)}

shr_unchecked(w, self, rhs) ==
    IF 0 <= rhs /\ rhs < int_bits
    THEN signed_integer(w, promoted(w), int_shr(self, rhs))
    ELSE UNION {signed_integer(w, promoted(w), u) : u \in Undefined(w, self)}

\* n &= sizeof( value_type ) * CHAR_BIT - 1, for n >= 0
masked(w, n) == n % w

\* an overflowing left shift that ignores a negative count
shl_overflowing_silent(w, self, n) ==
    IF n <= 0 THEN {Returns(self)}
    ELSE signed_integer(w, promoted(w), self * Pow2(masked(w, n)))

\* shl_overflowing( I n ), I an integral type: a negative count is notified
\* and *this returned; otherwise value( ) << n, an int for widths below
\* int's, becomes the result through signed_integer( I )
shl_overflowing(w, self, n) ==
    IF n < 0 THEN {AfterNotify(on_signed_integer_overflow, self)}
    ELSE IF n = 0 THEN {Returns(self)}
    ELSE signed_integer(w, promoted(w), self * Pow2(masked(w, n)))

\* shr_overflowing( I n )
shr_overflowing(w, self, n) ==
    IF n < 0 THEN {AfterNotify(on_signed_integer_overflow, self)}
    ELSE IF n = 0 THEN {Returns(self)}
    ELSE signed_integer(w, promoted(w), int_shr(self, masked(w, n)))

\* the bit pattern of v as a natural number below 2^w
bits_of(w, v) == v % Pow2(w)

RECURSIVE or_bits(_, _)
or_bits(a, b) ==
    IF a = 0 THEN b
    ELSE IF b = 0 THEN a
    ELSE (IF a % 2 = 1 \/ b % 2 = 1 THEN 1 ELSE 0)
            + 2 * or_bits(a \div 2, b \div 2)

\* operator|( signed_integer<w>, signed_integer<w> )
operator_or(w, lhs, rhs) ==
    static_cast(w, or_bits(bits_of(w, lhs), bits_of(w, rhs)))

\* sizeof( value_type ) * CHAR_BIT - n in std::size_t, as far as the shift
\* reads it: the difference, or a count congruent to it modulo w when the
\* subtraction wraps around
size_t_minus(w, n) == IF n <= w THEN w - n ELSE (w - n) % w

\* first | second with first evaluated before second
or_in_order(w, first, second) ==
    {[value |-> operator_or(w, a.value, b.value),
      calls |-> a.calls \o b.calls,
      raised |-> b.raised] : a \in {x \in first : x.raised = NoException},
                             b \in second}
        \cup {x \in first : x.raised # NoException}

\* rotate_left( std::size_t n ): the two shifts are evaluated in either order
rotate_left(w, self, n) ==
    or_in_order(w, shl_overflowing(w, self, n),
                shr_overflowing(w, self, size_t_minus(w, n)))
        \cup or_in_order(w, shr_overflowing(w, self, size_t_minus(w, n)),
                         shl_overflowing(w, self, n))

\* rotate_right( std::size_t n )
rotate_right(w, self, n) ==
    or_in_order(w, shr_overflowing(w, self, n),
                shl_overflowing(w, self, size_t_minus(w, n)))
        \cup or_in_order(w, shl_overflowing(w, self, size_t_minus(w, n)),
                         shr_overflowing(w, self, n))

\* v.rotate_left( n ).rotate_right( n )
rotate_left_rotate_right(w, self, n) ==
    UNION {IF a.raised # NoException THEN {a}
           ELSE {[value |-> b.value,
                  calls |-> a.calls \o b.calls,
                  raised |-> b.raised] : b \in rotate_right(w, a.value, n)} :
           a \in rotate_left(w, self, n)}

add_wrapped(w, self, rhs) == wrapped_add(w, self, rhs)

sub_wrapped(w, self, rhs) == wrapped_sub(w, self, rhs)

mul_wrapped_checking(w, self, rhs) == checked_mul(w, self, rhs)

mul_wrapped(w, self, rhs) == wrapped_mul(w, self, rhs)

\* mul_wrapped( signed_integer( -1 ) )
negate_wrapped(w, self) == mul_wrapped(w, self, -1)

mul_saturated_wrapping(w, self, rhs) == wrapped_mul(w, self, rhs)

mul_saturated(w, self, rhs) == sat_mul(w, self, rhs)

\* mul_saturated( signed_integer( -1 ) )
negate_saturated(w, self) == mul_saturated(w, self, -1)

div_saturated_checking(w, self, rhs) == checked_div(w, self, rhs)

div_saturated(w, self, rhs) == sat_div(w, self, rhs)

\* a wrapped division that yields 0 for a zero divisor
div_wrapped_silent(w, self, rhs) ==
    IF rhs = 0 THEN {Returns(0)}
    ELSE IF self = max(w) /\ rhs = -1 THEN {Returns(min(w))}
    ELSE debug_checked_div(w, self, rhs)

\* the special case tests value( ) == max( ); every other pair, min( ) and
\* -1 included, goes to the debug-checked division
div_wrapped(w, self, rhs) ==
    IF self = max(w) /\ rhs = -1 THEN {Returns(min(w))}
    ELSE debug_checked_div(w, self, rhs)

\* returns 0 for min( ) and -1, otherwise what debug_checked_div returns
rem_saturated(w, self, rhs) ==
    IF self = min(w) /\ rhs = -1 THEN {Returns(0)}
    ELSE debug_checked_div(w, self, rhs)

\* static conversion_checked( I other ), I a signed type of sw bits; the
\* overload taking signed_integer<I> passes other.value( ) to it
conversion_checked_truncating(w, sw, other) ==
    {Returns(static_cast(w, other))}

conversion_checked(w, sw, other) ==
    IF sw > w /\ ~in_range(w, other)
    THEN {AfterNotify(on_signed_integer_overflow, static_cast(w, other))}
    ELSE {Returns(static_cast(w, other))}

\* static conversion_unchecked( other ), other a signed_integer<I> or any
\* integral value: the constructor receives a value_type and checks nothing
conversion_unchecked_ranged(w, other) == signed_integer(w, promoted(w), other)

conversion_unchecked(w, other) == signed_integer(w, w, static_cast(w, other))

\* explicit signed_integer( signed_integer<I> other ) noexcept, I > Bits
signed_integer_narrowing_unchecked(w, other) == {Returns(static_cast(w, other))}

signed_integer_narrowing(w, other) ==
    IF DAW_DEFAULT_SIGNED_CHECKING = 0 /\ ~in_range(w, other)
    THEN {[value |-> static_cast(w, other),
           calls |-> on_signed_integer_overflow.calls,
           raised |-> IF on_signed_integer_overflow.raised = NoException
                      THEN NoException ELSE Terminate]}
    ELSE {Returns(static_cast(w, other))}

\* signed_integer( signed_integer<I> other ) noexcept, I / 8 <= sizeof(
\* value_type ): no checks
signed_integer_widening(w, other) == {Returns(static_cast(w, other))}

\* explicit signed_integer( I v ) noexcept with I unsigned: I is not
\* convertible, v is checked against [min, max]
signed_integer_from_unsigned(w, v) ==
    IF ~in_range(w, v)
    THEN {[value |-> static_cast(w, v),
           calls |-> on_signed_integer_overflow.calls,
           raised |-> IF on_signed_integer_overflow.raised = NoException
                      THEN NoException ELSE Terminate]}
    ELSE {Returns(static_cast(w, v))}

operator_equal(lhs, rhs) == {Returns(cmp_equal(lhs, rhs))}

operator_less(lhs, rhs) == {Returns(cmp_less(lhs, rhs))}

operator_not_equal(lhs, rhs) == {Returns(cmp_not_equal(lhs, rhs))}

operator_less_equal(lhs, rhs) == {Returns(cmp_less_equal(lhs, rhs))}

\* a greater-than that asks for less-than
operator_greater_as_less(lhs, rhs) == {Returns(cmp_less(lhs, rhs))}

operator_greater(lhs, rhs) == {Returns(cmp_greater(lhs, rhs))}

operator_greater_equal(lhs, rhs) == {Returns(cmp_greater_equal(lhs, rhs))}

\* sint_impl::int_result_t<Lhs, Rhs>: the width of the wider operand
int_result_t(lw, rw) == IF lw >= rw THEN lw ELSE rw

\* result_t( v ), v of a type of iw bits no wider than result_t
result_t(w, iw, v) == (CHOOSE o \in signed_integer(w, iw, v) : TRUE).value

\* the three overloads of a binary operator
ValueValue == "( value, value )"

ValueNative == "( value, native )"

NativeValue == "( native, value )"

BinaryForms == {ValueValue, ValueNative, NativeValue}

\* auto result = result_t( lhs ); result += result_t( rhs ); return result;
operator_plus(lw, rw, lhs, rhs) ==
    LET w == int_result_t(lw, rw)
    IN  operator_add_assign(w, result_t(w, lw, lhs), result_t(w, rw, rhs))

\* the overload for two signed_integer operands has result += ..., the
\* two overloads with a native operand have result -= ...
operator_minus(form, lw, rw, lhs, rhs) ==
    LET w == int_result_t(lw, rw)
    IN  IF form = ValueValue
        THEN operator_add_assign(w, result_t(w, lw, lhs), result_t(w, rw, rhs))
        ELSE operator_sub_assign(w, result_t(w, lw, lhs), result_t(w, rw, rhs))

operator_times(lw, rw, lhs, rhs) ==
    LET w == int_result_t(lw, rw)
    IN  operator_mul_assign(w, result_t(w, lw, lhs), result_t(w, rw, rhs))

operator_divide(lw, rw, lhs, rhs) ==
    LET w == int_result_t(lw, rw)
    IN  operator_div_assign(w, result_t(w, lw, lhs), result_t(w, rw, rhs))

operator_modulo(lw, rw, lhs, rhs) ==
    LET w == int_result_t(lw, rw)
    IN  operator_rem_assign(w, result_t(w, lw, lhs), result_t(w, rw, rhs))

\* what the six operators return for lhs and rhs, in that operand order
comparisons(lhs, rhs) ==
    LET returned(outcomes) == (CHOOSE o \in outcomes : TRUE).value
    IN  [eq |-> returned(operator_equal(lhs, rhs)),
         ne |-> returned(operator_not_equal(lhs, rhs)),
         lt |-> returned(operator_less(lhs, rhs)),
         le |-> returned(operator_less_equal(lhs, rhs)),
         gt |-> returned(operator_greater(lhs, rhs)),
         ge |-> returned(operator_greater_equal(lhs, rhs))]

---------------------------------------------------------------------------
(* State machine *)

Init ==
    /\ signed_overflow_handler = NoHandler
    /\ signed_div_by_zero_handler = NoHandler
    /\ last_overflow_registration = NoHandler
    /\ last_div_by_zero_registration = NoHandler
    /\ pc = "idle"
    /\ Bits = 8
    /\ m_value = 0
    /\ op = "none"
    /\ arg_this = 0
    /\ arg_rhs = 0
    /\ arg_bits = 8
    /\ result = {}
    /\ calls = <<>>
    /\ raised = NoException

\* the slot after register_...( handler ): handler replaces its content;
\* register_...( ) passes no callback and empties it
Registered(slot, handler) == handler

\* a registry with one slot behind both registration calls
register_signed_overflow_handler_shared ==
    /\ pc # "done"
    /\ \E h \in Callbacks \cup {NoHandler} :
          /\ signed_overflow_handler' = h
          /\ signed_div_by_zero_handler' = h
          /\ last_overflow_registration' = h
    /\ UNCHANGED <<last_div_by_zero_registration, block>>

\* register_signed_overflow_handler( handler ) / ( )
register_signed_overflow_handler ==
    /\ pc # "done"
    /\ \E h \in Callbacks \cup {NoHandler} :
          /\ signed_overflow_handler' = Registered(signed_overflow_handler, h)
          /\ last_overflow_registration' = h
    /\ UNCHANGED <<signed_div_by_zero_handler, last_div_by_zero_registration,
                   block>>

\* register_signed_div_by_zero_handler( handler ) / ( )
register_signed_div_by_zero_handler ==
    /\ pc # "done"
    /\ \E h \in Callbacks \cup {NoHandler} :
          /\ signed_div_by_zero_handler' =
                Registered(signed_div_by_zero_handler, h)
          /\ last_div_by_zero_registration' = h
    /\ UNCHANGED <<signed_overflow_handler, last_overflow_registration,
                   block>>

\* signed_integer<Bits>( v ) with v of value_type: an operand comes alive
Construct ==
    /\ pc = "idle"
    /\ pc' = "ready"
    /\ \E w \in Widths : \E v \in Values(w) : Bits' = w /\ m_value' = v
    /\ UNCHANGED <<registry, history, op, arg_this, arg_rhs, arg_bits, result,
                   calls, raised>>

\* the block ends: the operand is destroyed (trivially)
EndScope ==
    /\ pc = "done"
    /\ pc' = "idle"
    /\ Bits' = 8
    /\ m_value' = 0
    /\ op' = "none"
    /\ arg_this' = 0
    /\ arg_rhs' = 0
    /\ arg_bits' = 8
    /\ result' = {}
    /\ calls' = <<>>
    /\ raised' = NoException
    /\ UNCHANGED <<registry, history>>

\* a call whose notification uses up the handler it invoked
Finish_consuming(name, r, rw, o, inplace, ret) ==
    /\ pc' = "done"
    /\ op' = name
    /\ arg_this' = m_value
    /\ arg_rhs' = r
    /\ arg_bits' = rw
    /\ calls' = o.calls
    /\ raised' = o.raised
    /\ m_value' = IF inplace /\ o.raised = NoException THEN o.value ELSE m_value
    /\ result' = IF o.raised = NoException THEN ret ELSE {}
    /\ signed_overflow_handler' =
          IF o.calls # <<>> THEN NoHandler ELSE signed_overflow_handler
    /\ UNCHANGED <<signed_div_by_zero_handler, history, Bits>>

\* One call of operation name with argument r (of width rw) and outcome o.
\* An exception leaves before anything is assigned or returned; inplace
\* operations store the value in the object; ret is what the call returns.
Finish(name, r, rw, o, inplace, ret) ==
    /\ pc' = "done"
    /\ op' = name
    /\ arg_this' = m_value
    /\ arg_rhs' = r
    /\ arg_bits' = rw
    /\ calls' = o.calls
    /\ raised' = o.raised
    /\ m_value' = IF inplace /\ o.raised = NoException THEN o.value ELSE m_value
    /\ result' = IF o.raised = NoException THEN ret ELSE {}
    /\ UNCHANGED <<registry, history, Bits>>

\* a const member function returning a new signed_integer
Method(name, r, outcomes) ==
    /\ pc = "ready"
    /\ \E o \in outcomes : Finish(name, r, Bits, o, FALSE, {o.value})

\* a compound assignment or prefix operator: stores and returns *this
Compound(name, r, outcomes) ==
    /\ pc = "ready"
    /\ \E o \in outcomes : Finish(name, r, Bits, o, TRUE, {o.value})

\* a postfix operator: stores and returns the previous value
Postfix(name, r, outcomes) ==
    /\ pc = "ready"
    /\ \E o \in outcomes : Finish(name, r, Bits, o, TRUE, {m_value})

Call_operator_add_assign ==
    \E r \in Values(Bits) :
        Compound("operator+=", r, operator_add_assign(Bits, m_value, r))

Call_operator_pre_increment ==
    Compound("++operator", 1, operator_increment(Bits, m_value))

Call_operator_post_increment ==
    Postfix("operator++", 1, operator_increment(Bits, m_value))

Call_add_checked ==
    \E r \in Values(Bits) :
        Method("add_checked", r, add_checked(Bits, m_value, r))

Call_add_saturated ==
    \E r \in Values(Bits) :
        Method("add_saturated", r, add_saturated(Bits, m_value, r))

Call_operator_sub_assign ==
    \E r \in Values(Bits) :
        Compound("operator-=", r, operator_sub_assign(Bits, m_value, r))

Call_sub_checked ==
    \E r \in Values(Bits) :
        Method("sub_checked", r, sub_checked(Bits, m_value, r))

Call_sub_saturated ==
    \E r \in Values(Bits) :
        Method("sub_saturated", r, sub_saturated(Bits, m_value, r))

Call_operator_pre_decrement ==
    Compound("--operator", 1, operator_decrement(Bits, m_value))

Call_operator_post_decrement ==
    Postfix("operator--", 1, operator_decrement(Bits, m_value))

Call_operator_mul_assign ==
    \E r \in Values(Bits) :
        Compound("operator*=", r, operator_mul_assign(Bits, m_value, r))

Call_mul_checked ==
    \E r \in Values(Bits) :
        Method("mul_checked", r, mul_checked(Bits, m_value, r))

Call_operator_div_assign ==
    \E r \in Values(Bits) :
        Compound("operator/=", r, operator_div_assign(Bits, m_value, r))

Call_div_checked ==
    \E r \in Values(Bits) :
        Method("div_checked", r, div_checked(Bits, m_value, r))

Call_operator_rem_assign ==
    \E r \in Values(Bits) :
        Compound("operator%=", r, operator_rem_assign(Bits, m_value, r))

Call_rem_checked ==
    \E r \in Values(Bits) :
        Method("rem_checked", r, rem_checked(Bits, m_value, r))

Call_operator_negate ==
    Method("operator-", 0, operator_negate(Bits, m_value))

Call_negate_checked ==
    Method("negate_checked", 0, negate_checked(Bits, m_value))

Call_operator_shl_assign ==
    \E r \in Values(Bits) :
        Compound("operator<<=", r, operator_shl_assign(Bits, m_value, r))

Call_shl_checked ==
    \E r \in Values(Bits) :
        Method("shl_checked", r, shl_checked(Bits, m_value, r))

Call_operator_shr_assign ==
    \E r \in Values(Bits) :
        Compound("operator>>=", r, operator_shr_assign(Bits, m_value, r))

Call_shr_checked ==
    \E r \in Values(Bits) :
        Method("shr_checked", r, shr_checked(Bits, m_value, r))

Call_add_unchecked ==
    \E r \in Values(Bits) :
        Method("add_unchecked", r, add_unchecked(Bits, m_value, r))

Call_sub_unchecked ==
    \E r \in Values(Bits) :
        Method("sub_unchecked", r, sub_unchecked(Bits, m_value, r))

Call_mul_uncheck ==
    \E r \in Values(Bits) :
        Method("mul_uncheck", r, mul_uncheck(Bits, m_value, r))

Call_negate_unchecked ==
    Method("negate_unchecked", 0, negate_unchecked(Bits, m_value))

Call_shl_unchecked ==
    \E r \in Values(Bits) :
        Method("shl_unchecked", r, shl_unchecked(Bits, m_value, r))

Call_shr_unchecked ==
    \E r \in Values(Bits) :
        Method("shr_unchecked", r, shr_unchecked(Bits, m_value, r))

Call_shl_overflowing ==
    /\ pc = "ready"
    /\ \E n \in ShiftCounts(Bits) :
          \E o \in shl_overflowing(Bits, m_value, n) :
              Finish("shl_overflowing", n, int_bits, o, FALSE, {o.value})

Call_shr_overflowing ==
    /\ pc = "ready"
    /\ \E n \in ShiftCounts(Bits) :
          \E o \in shr_overflowing(Bits, m_value, n) :
              Finish("shr_overflowing", n, int_bits, o, FALSE, {o.value})

Call_rotate_left ==
    \E n \in RotateCounts(Bits) :
        Method("rotate_left", n, rotate_left(Bits, m_value, n))

Call_rotate_right ==
    \E n \in RotateCounts(Bits) :
        Method("rotate_right", n, rotate_right(Bits, m_value, n))

\* auto r = v.rotate_left( n ).rotate_right( n )
Call_rotate_left_rotate_right ==
    \E n \in RotateCounts(Bits) :
        Method("rotate_left.rotate_right", n,
               rotate_left_rotate_right(Bits, m_value, n))

Call_add_wrapped ==
    \E r \in Values(Bits) :
        Method("add_wrapped", r, add_wrapped(Bits, m_value, r))

Call_sub_wrapped ==
    \E r \in Values(Bits) :
        Method("sub_wrapped", r, sub_wrapped(Bits, m_value, r))

Call_mul_wrapped ==
    \E r \in Values(Bits) :
        Method("mul_wrapped", r, mul_wrapped(Bits, m_value, r))

Call_negate_wrapped ==
    Method("negate_wrapped", 0, negate_wrapped(Bits, m_value))

Call_mul_saturated ==
    \E r \in Values(Bits) :
        Method("mul_saturated", r, mul_saturated(Bits, m_value, r))

Call_negate_saturated ==
    Method("negate_saturated", 0, negate_saturated(Bits, m_value))

Call_div_saturated ==
    \E r \in Values(Bits) :
        Method("div_saturated", r, div_saturated(Bits, m_value, r))

Call_div_wrapped ==
    \E r \in Values(Bits) :
        Method("div_wrapped", r, div_wrapped(Bits, m_value, r))

Call_rem_saturated ==
    \E r \in Values(Bits) :
        Method("rem_saturated", r, rem_saturated(Bits, m_value, r))

\* signed_integer<Bits>::conversion_checked( other ): static, the operand
\* object takes no part
Call_conversion_checked ==
    /\ pc = "ready"
    /\ \E sw \in Widths : \E r \in Values(sw) :
          \E o \in conversion_checked(Bits, sw, r) :
              Finish("conversion_checked", r, sw, o, FALSE, {o.value})

\* conversion_checked( other ) with other an int
Call_conversion_checked_int ==
    /\ pc = "ready"
    /\ \E r \in IntValues :
          \E o \in conversion_checked(Bits, int_bits, r) :
              Finish("conversion_checked", r, int_bits, o, FALSE, {o.value})

\* conversion_unchecked( other ) with other a signed_integer<sw>
Call_conversion_unchecked ==
    /\ pc = "ready"
    /\ \E sw \in Widths : \E r \in Values(sw) :
          \E o \in conversion_unchecked(Bits, r) :
              Finish("conversion_unchecked", r, sw, o, FALSE, {o.value})

\* conversion_unchecked( other ) with other an int or an unsigned int
Call_conversion_unchecked_native ==
    /\ pc = "ready"
    /\ \E r \in IntValues \cup UnsignedValues :
          \E o \in conversion_unchecked(Bits, r) :
              Finish("conversion_unchecked", r, int_bits, o, FALSE, {o.value})

\* static_cast<signed_integer<Bits>>( other ), other a signed_integer<sw>
\* with sw > Bits
Call_signed_integer_narrowing ==
    /\ pc = "ready"
    /\ \E sw \in Widths : \E r \in Values(sw) :
          /\ sw > Bits
          /\ \E o \in signed_integer_narrowing(Bits, r) :
                Finish("signed_integer(wider)", r, sw, o, FALSE, {o.value})

\* signed_integer<Bits> x = other, other a signed_integer<sw>, sw <= Bits
Call_signed_integer_widening ==
    /\ pc = "ready"
    /\ \E sw \in Widths : \E r \in Values(sw) :
          /\ sw <= Bits
          /\ \E o \in signed_integer_widening(Bits, r) :
                Finish("signed_integer(narrower)", r, sw, o, FALSE, {o.value})

\* signed_integer<Bits>( v ), v a native signed integer of iw bits
Call_signed_integer_native ==
    /\ pc = "ready"
    /\ \E iw \in Widths \cup {int_bits} : \E r \in NativeValues(iw) :
          \E o \in signed_integer(Bits, iw, r) :
              Finish("signed_integer(native)", r, iw, o, FALSE, {o.value})

\* signed_integer<Bits>( v ), v an unsigned int
Call_signed_integer_from_unsigned ==
    /\ pc = "ready"
    /\ \E r \in UnsignedValues :
          \E o \in signed_integer_from_unsigned(Bits, r) :
              Finish("signed_integer(unsigned)", r, int_bits, o, FALSE,
                     {o.value})

Call_operator_equal ==
    \E r \in Values(Bits) : Method("operator==", r, operator_equal(m_value, r))

Call_operator_less ==
    \E r \in Values(Bits) : Method("operator<", r, operator_less(m_value, r))

\* the six comparison operators applied to the object and r, in both
\* operand orders; r is a signed_integer<sw>, an int or an unsigned int
Call_comparisons ==
    /\ pc = "ready"
    /\ \E sw \in Widths \cup {int_bits} :
          \E r \in IF sw \in Widths THEN Values(sw)
                    ELSE IntValues \cup UnsignedValues :
              LET c == [value_first |-> comparisons(m_value, r),
                        value_second |-> comparisons(r, m_value)]
              IN  Finish("comparisons", r, sw, Returns(c), FALSE, {c})

\* A binary operator is called on the object and r, r a signed_integer<sw>
\* or a native signed integer of sw bits, in one of the three overloads.
BinaryOperands(form, sw) ==
    IF form = ValueValue THEN Values(sw) ELSE NativeOperands(sw)

lhs_width(form, sw) == IF form = NativeValue THEN sw ELSE Bits

rhs_width(form, sw) == IF form = NativeValue THEN Bits ELSE sw

lhs_operand(form, r) == IF form = NativeValue THEN r ELSE m_value

rhs_operand(form, r) == IF form = NativeValue THEN m_value ELSE r

\* the call returns result, whose type has the wider operand's width
FinishBinary(symbol, form, sw, r, o) ==
    Finish(symbol \o form, r, sw, o, FALSE,
           {[bits |-> int_result_t(lhs_width(form, sw), rhs_width(form, sw)),
             value |-> o.value]})

Call_operator_plus ==
    /\ pc = "ready"
    /\ \E form \in BinaryForms : \E sw \in Widths :
          \E r \in BinaryOperands(form, sw) :
              \E o \in operator_plus(lhs_width(form, sw), rhs_width(form, sw),
                                     lhs_operand(form, r), rhs_operand(form, r)) :
                  FinishBinary("operator+", form, sw, r, o)

Call_operator_minus ==
    /\ pc = "ready"
    /\ \E form \in BinaryForms : \E sw \in Widths :
          \E r \in BinaryOperands(form, sw) :
              \E o \in operator_minus(form, lhs_width(form, sw),
                                      rhs_width(form, sw),
                                      lhs_operand(form, r),
                                      rhs_operand(form, r)) :
                  FinishBinary("operator-", form, sw, r, o)

Call_operator_times ==
    /\ pc = "ready"
    /\ \E form \in BinaryForms : \E sw \in Widths :
          \E r \in BinaryOperands(form, sw) :
              \E o \in operator_times(lhs_width(form, sw), rhs_width(form, sw),
                                      lhs_operand(form, r), rhs_operand(form, r)) :
                  FinishBinary("operator*", form, sw, r, o)

Call_operator_divide ==
    /\ pc = "ready"
    /\ \E form \in BinaryForms : \E sw \in Widths :
          \E r \in BinaryOperands(form, sw) :
              \E o \in operator_divide(lhs_width(form, sw),
                                       rhs_width(form, sw),
                                       lhs_operand(form, r),
                                       rhs_operand(form, r)) :
                  FinishBinary("operator/", form, sw, r, o)

Call_operator_modulo ==
    /\ pc = "ready"
    /\ \E form \in BinaryForms : \E sw \in Widths :
          \E r \in BinaryOperands(form, sw) :
              \E o \in operator_modulo(lhs_width(form, sw),
                                       rhs_width(form, sw),
                                       lhs_operand(form, r),
                                       rhs_operand(form, r)) :
                  FinishBinary("operator%", form, sw, r, o)

Next ==
    \/ register_signed_overflow_handler
    \/ register_signed_div_by_zero_handler
    \/ Construct
    \/ EndScope
    \/ Call_operator_add_assign
    \/ Call_operator_pre_increment
    \/ Call_operator_post_increment
    \/ Call_add_checked
    \/ Call_add_saturated
    \/ Call_operator_sub_assign
    \/ Call_sub_checked
    \/ Call_sub_saturated
    \/ Call_operator_pre_decrement
    \/ Call_operator_post_decrement
    \/ Call_operator_mul_assign
    \/ Call_mul_checked
    \/ Call_operator_div_assign
    \/ Call_div_checked
    \/ Call_operator_rem_assign
    \/ Call_rem_checked
    \/ Call_operator_negate
    \/ Call_negate_checked
    \/ Call_operator_shl_assign
    \/ Call_shl_checked
    \/ Call_operator_shr_assign
    \/ Call_shr_checked
    \/ Call_add_unchecked
    \/ Call_sub_unchecked
    \/ Call_mul_uncheck
    \/ Call_negate_unchecked
    \/ Call_shl_unchecked
    \/ Call_shr_unchecked
    \/ Call_shl_overflowing
    \/ Call_shr_overflowing
    \/ Call_rotate_left
    \/ Call_rotate_right
    \/ Call_rotate_left_rotate_right
    \/ Call_add_wrapped
    \/ Call_sub_wrapped
    \/ Call_mul_wrapped
    \/ Call_negate_wrapped
    \/ Call_mul_saturated
    \/ Call_negate_saturated
    \/ Call_div_saturated
    \/ Call_div_wrapped
    \/ Call_rem_saturated
    \/ Call_conversion_checked
    \/ Call_conversion_checked_int
    \/ Call_conversion_unchecked
    \/ Call_conversion_unchecked_native
    \/ Call_signed_integer_narrowing
    \/ Call_signed_integer_widening
    \/ Call_signed_integer_native
    \/ Call_signed_integer_from_unsigned
    \/ Call_operator_equal
    \/ Call_operator_less
    \/ Call_comparisons
    \/ Call_operator_plus
    \/ Call_operator_minus
    \/ Call_operator_times
    \/ Call_operator_divide
    \/ Call_operator_modulo

Spec == Init /\ [][Next]_vars

---------------------------------------------------------------------------
(* The last operation, read from the state *)

CheckedAddOps == {"operator+=", "++operator", "operator++", "add_checked"}

CheckedSubOps == {"operator-=", "--operator", "operator--", "sub_checked"}

CheckedMulOps == {"operator*=", "mul_checked"}

CheckedNegOps == {"operator-", "negate_checked"}

CheckedDivOps == {"operator/=", "div_checked"}

CheckedRemOps == {"operator%=", "rem_checked"}

CheckedShiftOps == {"operator<<=", "shl_checked", "operator>>=", "shr_checked"}

CompoundArithmeticOps ==
    {"operator+=", "operator-=", "operator*=", "++operator", "operator++",
     "--operator", "operator--"}

\* v is n reduced modulo 2^w into the signed range
IsWrapOf(w, v, n) == in_range(w, v) /\ (v - n) % Pow2(w) = 0

\* the mathematically exact result of the last add, subtract, multiply or
\* negate
ExactResult ==
    CASE op \in CheckedAddOps \cup {"add_saturated"} -> arg_this + arg_rhs
      [] op \in CheckedSubOps \cup {"sub_saturated"} -> arg_this - arg_rhs
      [] op \in CheckedMulOps -> arg_this * arg_rhs
      [] op \in CheckedNegOps -> -arg_this

\* the last operation was a checked or debug-checked one and met a range
\* violation
OverflowCase ==
    /\ pc = "done"
    /\ \/ /\ op \in CheckedAddOps \cup CheckedSubOps \cup CheckedMulOps
                      \cup CheckedNegOps
          /\ ~in_range(Bits, ExactResult)
       \/ op \in CheckedDivOps /\ arg_this = min(Bits) /\ arg_rhs = -1
       \/ op \in CheckedShiftOps /\ (arg_rhs < 0 \/ arg_rhs >= Bits)
       \/ op = "conversion_checked" /\ ~in_range(Bits, arg_rhs)

\* the last operation was a division or remainder by zero
DivByZeroCase ==
    /\ pc = "done"
    /\ op \in CheckedDivOps \cup CheckedRemOps
    /\ arg_rhs = 0

OverflowException == "signed_integer_overflow_exception"

DivByZeroException == "signed_integer_div_by_zero_exception"

WrappedOps ==
    {"add_wrapped", "sub_wrapped", "mul_wrapped", "negate_wrapped",
     "div_wrapped"}

SaturatedOps ==
    {"add_saturated", "sub_saturated", "mul_saturated", "negate_saturated",
     "div_saturated", "rem_saturated"}

UncheckedOps ==
    {"add_unchecked", "sub_unchecked", "mul_uncheck", "negate_unchecked",
     "shl_unchecked", "shr_unchecked"}

\* the names of the three overloads of a binary operator
BinaryOps(symbol) == {symbol \o form : form \in BinaryForms}

\* the binary operators whose left operand is the native one
NativeFirstOps ==
    {symbol \o NativeValue :
        symbol \in {"operator+", "operator-", "operator*", "operator/",
                    "operator%"}}

\* the operands of the last binary operator, in the order written
BinaryLhs == IF op \in NativeFirstOps THEN arg_rhs ELSE arg_this

BinaryRhs == IF op \in NativeFirstOps THEN arg_this ELSE arg_rhs

DivisionOps ==
    CheckedDivOps \cup CheckedRemOps
        \cup {"div_wrapped", "div_saturated", "rem_saturated"}
        \cup BinaryOps("operator/") \cup BinaryOps("operator%")

\* the last operation divided by zero, under whatever policy
DividedByZero == pc = "done" /\ op \in DivisionOps /\ BinaryRhs = 0

\* the overflow notifier ran in the last operation: the registered callback
\* was invoked with Overflow, or the default raised
NotifiedOverflow ==
    \/ raised \in {OverflowException, Terminate}
    \/ \E i \in 1 .. Len(calls) : calls[i].error_type = "Overflow"

\* the divide-by-zero notifier ran in the last operation
NotifiedDivByZero ==
    \/ raised = DivByZeroException
    \/ \E i \in 1 .. Len(calls) : calls[i].error_type = "DivideByZero"

\* q is a / b rounded toward zero
IsTruncatedQuotient(q, a, b) ==
    /\ Abs(a - q * b) < Abs(b)
    /\ (a - q * b = 0 \/ (a - q * b < 0) = (a < 0))

\* the w-bit pattern of v rotated left by k positions, 0 <= k < w, read as
\* a signed value
RotatedLeft(w, v, k) ==
    LET u == v % Pow2(w)
        r == (u % Pow2(w - k)) * Pow2(k) + u \div Pow2(w - k)
    IN  IF r >= Pow2(w - 1) THEN r - Pow2(w) ELSE r

\* v clamped to [min, max] of width w
Clamp(w, v) == IF v > max(w) THEN max(w) ELSE IF v < min(w) THEN min(w) ELSE v

---------------------------------------------------------------------------
(* Claims *)

\* C1: with the slot of the error's kind empty, a checked or debug-checked
\* operation that detects the error raises the exception of that kind
\* (signed_integer_div_by_zero_exception for a division by zero), returns
\* no value and invokes no callback.
C1_EmptySlotRaises ==
    /\ (OverflowCase /\ signed_overflow_handler = NoHandler)
          => (raised = OverflowException /\ result = {} /\ calls = <<>>)
    /\ (DivByZeroCase /\ signed_div_by_zero_handler = NoHandler)
          => (raised = DivByZeroException /\ result = {} /\ calls = <<>>)

\* y /= 0 after the divide-by-zero handler was cleared, the overflow handler
\* still registered
C1_Witness ==
    /\ pc = "done"
    /\ op = "operator/="
    /\ arg_rhs = 0
    /\ signed_overflow_handler = "error_handler"
    /\ signed_div_by_zero_handler = NoHandler
    /\ raised = DivByZeroException

\* C2: with an overflow handler registered, a compound +=, -=, *=, ++ or --
\* whose exact result is outside [min, max] invokes the handler once with
\* Overflow and leaves the operand holding the exact result modulo 2^Bits.
C2_CompoundOverflowWraps ==
    (/\ pc = "done"
     /\ op \in CompoundArithmeticOps
     /\ signed_overflow_handler # NoHandler
     /\ ~in_range(Bits, ExactResult))
        => /\ calls = <<Invocation(signed_overflow_handler, "Overflow")>>
           /\ raised = NoException
           /\ IsWrapOf(Bits, m_value, ExactResult)

\* i8: 100 *= 10 leaves -24
C2_Witness ==
    /\ pc = "done"
    /\ op = "operator*="
    /\ Bits = 8
    /\ arg_this = 100
    /\ arg_rhs = 10
    /\ m_value = -24
    /\ Len(calls) = 1

\* C3: a detected error of a kind invokes exactly once the callback passed
\* to the latest registration call of that kind's slot, and nothing else.
C3_LatestRegistrationInvokedOnce ==
    /\ (OverflowCase /\ last_overflow_registration # NoHandler)
          => calls = <<Invocation(last_overflow_registration, "Overflow")>>
    /\ (DivByZeroCase /\ last_div_by_zero_registration # NoHandler)
          => calls =
                <<Invocation(last_div_by_zero_registration, "DivideByZero")>>

C3_Witness ==
    /\ pc = "done"
    /\ op = "operator+="
    /\ arg_this = max(Bits)
    /\ arg_rhs = max(Bits)
    /\ last_overflow_registration = "other_handler"
    /\ calls = <<Invocation("other_handler", "Overflow")>>

\* C4: a step that changes the divide-by-zero slot (or registers in it)
\* leaves the overflow slot unchanged, and the other way round.
C4_SlotsIndependent ==
    [][/\ (\/ signed_div_by_zero_handler' # signed_div_by_zero_handler
           \/ last_div_by_zero_registration' # last_div_by_zero_registration)
          => UNCHANGED signed_overflow_handler
       /\ (\/ signed_overflow_handler' # signed_overflow_handler
           \/ last_overflow_registration' # last_overflow_registration)
          => UNCHANGED signed_div_by_zero_handler]_vars

\* the divide-by-zero slot was cleared while the overflow slot holds a
\* callback registered before or after
C4_Witness ==
    /\ pc = "idle"
    /\ signed_overflow_handler = "error_handler"
    /\ last_div_by_zero_registration = NoHandler
    /\ signed_div_by_zero_handler = NoHandler

\* C5: every invocation is routed by kind: a range violation (overflow or
\* underflow) reaches the overflow slot's callback with Overflow and only
\* it; a division or remainder by zero reaches the divide-by-zero slot's
\* callback with DivideByZero and only it.
C5_KindsRouted ==
    /\ OverflowCase
          => calls = IF signed_overflow_handler = NoHandler THEN <<>>
                     ELSE <<Invocation(signed_overflow_handler, "Overflow")>>
    /\ DividedByZero
          => calls = IF signed_div_by_zero_handler = NoHandler THEN <<>>
                     ELSE <<Invocation(signed_div_by_zero_handler,
                                       "DivideByZero")>>
    /\ \A i \in 1 .. Len(calls) :
          \/ /\ calls[i] = Invocation(signed_overflow_handler, "Overflow")
             /\ ~DividedByZero
          \/ /\ calls[i] = Invocation(signed_div_by_zero_handler,
                                      "DivideByZero")
             /\ DividedByZero

\* min() -= max(): an underflow, reported to the overflow slot's callback
\* while the divide-by-zero slot holds another callback
C5_Witness ==
    /\ pc = "done"
    /\ op = "operator-="
    /\ arg_this = min(Bits)
    /\ arg_rhs = max(Bits)
    /\ signed_overflow_handler = "error_handler"
    /\ signed_div_by_zero_handler = "other_handler"
    /\ calls = <<Invocation("error_handler", "Overflow")>>

\* C6: the registry changes only in a registration call: no operation,
\* whether or not it invokes a handler, changes either slot.
C6_RegistryChangesOnlyByRegistration ==
    [][/\ registry' # registry
          => (\/ register_signed_overflow_handler
              \/ register_signed_div_by_zero_handler)
       /\ pc' = "done" => UNCHANGED registry]_vars

\* an operation has invoked the overflow handler and the slot still holds it
C6_Witness ==
    /\ pc = "done"
    /\ op = "operator++"
    /\ signed_overflow_handler # NoHandler
    /\ calls = <<Invocation(signed_overflow_handler, "Overflow")>>

\* C7: add_checked of operands whose sum is in [min, max] returns the exact
\* sum and notifies nobody.
C7_AddCheckedExact ==
    (/\ pc = "done"
     /\ op = "add_checked"
     /\ in_range(Bits, arg_this + arg_rhs))
        => /\ result = {arg_this + arg_rhs}
           /\ calls = <<>>
           /\ raised = NoException

C7_Witness ==
    /\ pc = "done"
    /\ op = "add_checked"
    /\ Bits = 16
    /\ arg_this = 300
    /\ arg_rhs = -100
    /\ result = {200}

\* C8: add_checked of operands whose sum is outside [min, max] runs the
\* overflow notifier exactly once: the registered handler is invoked once
\* and the sum modulo 2^Bits is returned, or with no handler the default
\* raises.
C8_AddCheckedOverflow ==
    (/\ pc = "done"
     /\ op = "add_checked"
     /\ ~in_range(Bits, arg_this + arg_rhs))
        => IF signed_overflow_handler = NoHandler
           THEN raised = OverflowException /\ calls = <<>> /\ result = {}
           ELSE /\ calls = <<Invocation(signed_overflow_handler, "Overflow")>>
                /\ raised = NoException
                /\ \E v \in result :
                      result = {v} /\ IsWrapOf(Bits, v, arg_this + arg_rhs)

\* i8: 127 + 1 = -128
C8_Witness ==
    /\ pc = "done"
    /\ op = "add_checked"
    /\ Bits = 8
    /\ arg_this = 127
    /\ arg_rhs = 1
    /\ Len(calls) = 1
    /\ result = {-128}

\* C9: add_saturated returns max() when the sum exceeds max, min() when it
\* is below min, the exact sum otherwise, and invokes no handler.
C9_AddSaturated ==
    (pc = "done" /\ op = "add_saturated")
        => /\ result = {IF arg_this + arg_rhs > max(Bits) THEN max(Bits)
                        ELSE IF arg_this + arg_rhs < min(Bits) THEN min(Bits)
                        ELSE arg_this + arg_rhs}
           /\ calls = <<>>
           /\ raised = NoException

\* 300 + max() saturates to max()
C9_Witness ==
    /\ pc = "done"
    /\ op = "add_saturated"
    /\ Bits = 16
    /\ arg_this = 300
    /\ arg_rhs = max(16)
    /\ result = {max(16)}

\* C10: sub_saturated returns max() when the difference exceeds max, min()
\* when it is below min, the exact difference otherwise, and invokes no
\* handler.
C10_SubSaturated ==
    (pc = "done" /\ op = "sub_saturated")
        => /\ result = {IF arg_this - arg_rhs > max(Bits) THEN max(Bits)
                        ELSE IF arg_this - arg_rhs < min(Bits) THEN min(Bits)
                        ELSE arg_this - arg_rhs}
           /\ calls = <<>>
           /\ raised = NoException

\* -300 - max() saturates to min()
C10_Witness ==
    /\ pc = "done"
    /\ op = "sub_saturated"
    /\ Bits = 16
    /\ arg_this = -300
    /\ arg_rhs = max(16)
    /\ result = {min(16)}

\* C11: mul_saturated returns max() when the product exceeds max (min() * -1
\* included), min() when it is below min, the exact product otherwise;
\* negate_saturated returns max() for min() and the exact negation of every
\* other value; neither invokes a handler.
C11_MulSaturated ==
    /\ (pc = "done" /\ op = "mul_saturated")
          => /\ result = {Clamp(Bits, arg_this * arg_rhs)}
             /\ calls = <<>>
             /\ raised = NoException
    /\ (pc = "done" /\ op = "negate_saturated")
          => /\ result = {IF arg_this = min(Bits) THEN max(Bits)
                          ELSE -arg_this}
             /\ calls = <<>>
             /\ raised = NoException

\* max() * -2 saturates to min() with a handler registered and not invoked
C11_Witness ==
    /\ pc = "done"
    /\ op = "mul_saturated"
    /\ arg_this = max(Bits)
    /\ arg_rhs = -2
    /\ signed_overflow_handler = "error_handler"
    /\ result = {min(Bits)}
    /\ calls = <<>>

\* C12: min().div_saturated(-1) returns max() and invokes no handler; every
\* other pair with a divisor other than zero yields the quotient rounded
\* toward zero, with no notification.
C12_DivSaturated ==
    (pc = "done" /\ op = "div_saturated" /\ arg_rhs # 0)
        => /\ calls = <<>>
           /\ raised = NoException
           /\ \E v \in result :
                 /\ result = {v}
                 /\ IF arg_this = min(Bits) /\ arg_rhs = -1
                    THEN v = max(Bits)
                    ELSE IsTruncatedQuotient(v, arg_this, arg_rhs)

C12_Witness ==
    /\ pc = "done"
    /\ op = "div_saturated"
    /\ arg_this = min(Bits)
    /\ arg_rhs = -1
    /\ signed_overflow_handler = "error_handler"
    /\ result = {max(Bits)}
    /\ calls = <<>>

\* C13: div_wrapped, div_saturated and rem_saturated with a zero divisor run
\* the divide-by-zero notifier as the checked variant does: the registered
\* divide-by-zero handler is invoked once with DivideByZero, or with no
\* handler the default raises and nothing is returned.
C13_DivByZeroNotifiedUnderWrappedSaturated ==
    (/\ pc = "done"
     /\ op \in {"div_wrapped", "div_saturated", "rem_saturated"}
     /\ arg_rhs = 0)
        => IF signed_div_by_zero_handler = NoHandler
           THEN raised = DivByZeroException /\ calls = <<>> /\ result = {}
           ELSE /\ calls = <<Invocation(signed_div_by_zero_handler,
                                        "DivideByZero")>>
                /\ raised = NoException

C13_Witness ==
    /\ pc = "done"
    /\ op = "div_wrapped"
    /\ arg_this = 10
    /\ arg_rhs = 0
    /\ signed_div_by_zero_handler = "error_handler"
    /\ calls = <<Invocation("error_handler", "DivideByZero")>>

\* C14: add_wrapped, sub_wrapped, mul_wrapped and negate_wrapped return the
\* exact result reduced modulo 2^Bits into [min, max] and invoke no handler,
\* whatever the operands; min().mul_wrapped(-1) and min().negate_wrapped()
\* are min().
C14_WrappedExactModulo ==
    (pc = "done" /\ op \in {"add_wrapped", "sub_wrapped", "mul_wrapped",
                            "negate_wrapped"})
        => /\ calls = <<>>
           /\ raised = NoException
           /\ \E v \in result :
                 /\ result = {v}
                 /\ IsWrapOf(Bits, v,
                        CASE op = "add_wrapped" -> arg_this + arg_rhs
                          [] op = "sub_wrapped" -> arg_this - arg_rhs
                          [] op = "mul_wrapped" -> arg_this * arg_rhs
                          [] op = "negate_wrapped" -> -arg_this)
                 /\ (/\ op = "mul_wrapped"
                     /\ arg_this = min(Bits)
                     /\ arg_rhs = -1) => v = min(Bits)
                 /\ (op = "negate_wrapped" /\ arg_this = min(Bits))
                       => v = min(Bits)

\* min().mul_wrapped(-1) == min() with no overflow handler registered
C14_Witness ==
    /\ pc = "done"
    /\ op = "mul_wrapped"
    /\ arg_this = min(Bits)
    /\ arg_rhs = -1
    /\ signed_overflow_handler = NoHandler
    /\ result = {min(Bits)}
    /\ raised = NoException

\* C15: no operation of the wrapped or saturated family runs the overflow
\* notifier (no Overflow invocation, no overflow default raised), and
\* min().div_wrapped(-1) returns min() with no notification.  (The unchecked
\* family is stated by C18.)
C15_NoOverflowPathOutsideChecked ==
    /\ (pc = "done" /\ op \in WrappedOps \cup SaturatedOps)
          => ~NotifiedOverflow
    /\ (/\ pc = "done"
        /\ op = "div_wrapped"
        /\ arg_this = min(Bits)
        /\ arg_rhs = -1)
          => result = {min(Bits)} /\ calls = <<>> /\ raised = NoException

\* C16: negate_checked runs the overflow notifier if and only if the value
\* is min(); every other value yields its exact negation with no
\* notification; on min() with no handler registered the default raises.
C16_NegateChecked ==
    (pc = "done" /\ op = "negate_checked")
        => /\ NotifiedOverflow <=> arg_this = min(Bits)
           /\ arg_this # min(Bits)
                 => /\ result = {-arg_this}
                    /\ calls = <<>>
                    /\ raised = NoException
           /\ (arg_this = min(Bits) /\ signed_overflow_handler = NoHandler)
                 => raised = OverflowException /\ result = {}
           /\ (arg_this = min(Bits) /\ signed_overflow_handler # NoHandler)
                 => calls = <<Invocation(signed_overflow_handler, "Overflow")>>

C16_Witness ==
    /\ pc = "done"
    /\ op = "negate_checked"
    /\ arg_this = min(Bits)
    /\ signed_overflow_handler = NoHandler
    /\ raised = OverflowException

\* C17: div_checked runs the divide-by-zero notifier if and only if the
\* divisor is 0 and the overflow notifier if and only if the operands are
\* min() and -1; in every other case it returns the quotient rounded toward
\* zero with no notification.
C17_DivChecked ==
    (pc = "done" /\ op = "div_checked")
        => /\ NotifiedDivByZero <=> arg_rhs = 0
           /\ NotifiedOverflow <=> (arg_this = min(Bits) /\ arg_rhs = -1)
           /\ (arg_rhs # 0 /\ ~(arg_this = min(Bits) /\ arg_rhs = -1))
                 => /\ calls = <<>>
                    /\ raised = NoException
                    /\ \E v \in result :
                          /\ result = {v}
                          /\ IsTruncatedQuotient(v, arg_this, arg_rhs)

\* min() / -1 reports an overflow, not a division by zero
C17_Witness ==
    /\ pc = "done"
    /\ op = "div_checked"
    /\ arg_this = min(Bits)
    /\ arg_rhs = -1
    /\ signed_overflow_handler = "error_handler"
    /\ signed_div_by_zero_handler = "other_handler"
    /\ calls = <<Invocation("error_handler", "Overflow")>>

\* C18: add_unchecked, sub_unchecked, mul_uncheck, negate_unchecked,
\* shl_unchecked and shr_unchecked invoke no handler and raise nothing, at
\* widths 8 and 16 too; add, sub and mul return the exact result reduced
\* modulo 2^Bits.
C18_UncheckedNeverNotifies ==
    (pc = "done" /\ op \in UncheckedOps)
        => /\ calls = <<>>
           /\ raised = NoException
           /\ op \in {"add_unchecked", "sub_unchecked", "mul_uncheck"}
                 => \E v \in result :
                       /\ result = {v}
                       /\ IsWrapOf(Bits, v,
                              CASE op = "add_unchecked" -> arg_this + arg_rhs
                                [] op = "sub_unchecked" -> arg_this - arg_rhs
                                [] op = "mul_uncheck" -> arg_this * arg_rhs)

C20_RotateRoundTrip ==
    (/\ pc = "done"
     /\ op = "rotate_left.rotate_right"
     /\ arg_rhs \in 0 .. Bits - 1
     /\ raised = NoException)
        => result = {arg_this}

\* C21: rotate_left(n) and rotate_right(n), for every n >= 0 (0 and n >= Bits
\* included), return the circular rotation of the Bits-bit pattern by
\* n mod Bits positions and invoke no notifier.
C21_RotateWellDefined ==
    (pc = "done" /\ op \in {"rotate_left", "rotate_right"})
        => /\ calls = <<>>
           /\ raised = NoException
           /\ result =
                 {RotatedLeft(Bits, arg_this,
                              IF op = "rotate_left" THEN arg_rhs % Bits
                              ELSE (Bits - (arg_rhs % Bits)) % Bits)}

\* C27: in shl_checked, shr_checked, <<= and >>= a shift count below 0 or
\* not below Bits runs the overflow notifier (the registered handler is
\* invoked once, or the default raises); a count in [0, Bits - 1] whose
\* shift does not leave [min, max] yields the shifted value with no
\* notification.
C27_CheckedShifts ==
    (pc = "done" /\ op \in CheckedShiftOps)
        => /\ (arg_rhs < 0 \/ arg_rhs >= Bits)
                 => IF signed_overflow_handler = NoHandler
                    THEN /\ raised = OverflowException
                         /\ result = {}
                         /\ calls = <<>>
                    ELSE /\ calls = <<Invocation(signed_overflow_handler,
                                                 "Overflow")>>
                         /\ raised = NoException
           /\ (/\ 0 <= arg_rhs
               /\ arg_rhs < Bits
               /\ op \in {"shl_checked", "operator<<="}
               /\ in_range(Bits, arg_this * Pow2(arg_rhs)))
                 => /\ result = {arg_this * Pow2(arg_rhs)}
                    /\ calls = <<>>
                    /\ raised = NoException
           /\ (/\ 0 <= arg_rhs
               /\ arg_rhs < Bits
               /\ op \in {"shr_checked", "operator>>="})
                 => /\ \E v \in result :
                          /\ result = {v}
                          /\ v * Pow2(arg_rhs) <= arg_this
                          /\ arg_this < (v + 1) * Pow2(arg_rhs)
                    /\ calls = <<>>
                    /\ raised = NoException

\* 1.shl_checked(10) at 8 bits: the count is not below the width
C27_Witness ==
    /\ pc = "done"
    /\ op = "shl_checked"
    /\ Bits = 8
    /\ arg_this = 1
    /\ arg_rhs = 10
    /\ signed_overflow_handler = "error_handler"
    /\ calls = <<Invocation("error_handler", "Overflow")>>

\* C29: for every a and every b other than 0, what a.div_wrapped(b) returns
\* is the quotient rounded toward zero, reduced modulo 2^Bits; in
\* particular max().div_wrapped(-1) is -max().
C29_DivWrappedQuotient ==
    (/\ pc = "done"
     /\ op = "div_wrapped"
     /\ arg_rhs # 0
     /\ raised = NoException)
        => \E v \in result :
              /\ result = {v}
              /\ in_range(Bits, v)
              /\ \E q \in {v - Pow2(Bits), v, v + Pow2(Bits)} :
                    IsTruncatedQuotient(q, arg_this, arg_rhs)
              /\ (arg_this = max(Bits) /\ arg_rhs = -1) => v = -max(Bits)

\* C30: for every a and every b other than 0, a.rem_saturated(b) returns the
\* remainder of a by b (sign of a, magnitude below |b|; 0 for min() and
\* -1) and invokes no handler.
C30_RemSaturatedRemainder ==
    (pc = "done" /\ op = "rem_saturated" /\ arg_rhs # 0)
        => /\ calls = <<>>
           /\ raised = NoException
           /\ \E v \in result :
                 /\ result = {v}
                 /\ Abs(v) < Abs(arg_rhs)
                 /\ (v = 0 \/ (v < 0) = (arg_this < 0))
                 /\ (arg_this - v) % Abs(arg_rhs) = 0

\* C22: conversion_checked(src), src a native signed integer or an integer
\* value of another width, runs the overflow notifier exactly when src is
\* outside [min, max] of the destination; for src in range it returns src
\* and notifies nothing.
C22_ConversionChecked ==
    (pc = "done" /\ op = "conversion_checked")
        => /\ NotifiedOverflow <=> ~in_range(Bits, arg_rhs)
           /\ ~in_range(Bits, arg_rhs)
                 => IF signed_overflow_handler = NoHandler
                    THEN raised = OverflowException /\ calls = <<>>
                    ELSE /\ calls = <<Invocation(signed_overflow_handler,
                                                 "Overflow")>>
                         /\ raised = NoException
           /\ in_range(Bits, arg_rhs)
                 => /\ result = {arg_rhs}
                    /\ calls = <<>>
                    /\ raised = NoException

\* i8::conversion_checked( 255 ) with a handler registered
C22_Witness ==
    /\ pc = "done"
    /\ op = "conversion_checked"
    /\ Bits = 8
    /\ arg_bits = int_bits
    /\ arg_rhs = 255
    /\ calls = <<Invocation("error_handler", "Overflow")>>

\* C23: conversion_unchecked(src) returns src reduced modulo 2^Bits into
\* the signed range and never runs a notifier, also for src outside the
\* destination range and for unsigned src.
C23_ConversionUnchecked ==
    (pc = "done" /\ op = "conversion_unchecked")
        => /\ calls = <<>>
           /\ raised = NoException
           /\ \E v \in result : result = {v} /\ IsWrapOf(Bits, v, arg_rhs)

\* i8::conversion_unchecked( 0xAAU ) is -86
C23_Witness ==
    /\ pc = "done"
    /\ op = "conversion_unchecked"
    /\ Bits = 8
    /\ arg_rhs = 170
    /\ result = {-86}

ConstructorOps ==
    {"signed_integer(wider)", "signed_integer(narrower)",
     "signed_integer(native)", "signed_integer(unsigned)"}

\* C24: constructing from a wider integer value (explicit cast, checking
\* enabled) or from a wider or unsigned native integer runs the overflow
\* notifier exactly when the source is outside [min, max] of the
\* destination; constructing from a narrower integer value never notifies
\* and keeps the value.
C24_ConstructionAcrossWidths ==
    (pc = "done" /\ op \in ConstructorOps)
        => /\ NotifiedOverflow <=> ~in_range(Bits, arg_rhs)
           /\ (calls # <<>>)
                 => calls = <<Invocation(signed_overflow_handler, "Overflow")>>
           /\ in_range(Bits, arg_rhs)
                 => /\ result = {arg_rhs}
                    /\ calls = <<>>
                    /\ raised = NoException
           /\ op = "signed_integer(narrower)" => in_range(Bits, arg_rhs)

\* static_cast<i8>( i16 300 ) with a handler registered
C24_Witness ==
    /\ pc = "done"
    /\ op = "signed_integer(wider)"
    /\ Bits = 8
    /\ arg_bits = 16
    /\ arg_rhs = 300
    /\ calls = <<Invocation("error_handler", "Overflow")>>

\* the six comparisons of the mathematical values a and b
Compared(a, b) ==
    [eq |-> a = b, ne |-> a # b, lt |-> a < b, le |-> a <= b, gt |-> a > b,
     ge |-> a >= b]

\* C25: ==, !=, <, <=, >, >= between an integer value and another integer
\* value or a native integer of any width and signedness, in either operand
\* order, return the comparison of the mathematical values, and the six
\* results are mutually consistent (a < b iff b > a iff not a >= b; a == b
\* iff not a != b).
C25_Comparisons ==
    (pc = "done" /\ op = "comparisons")
        => \E c \in result :
              /\ result = {c}
              /\ c.value_first = Compared(arg_this, arg_rhs)
              /\ c.value_second = Compared(arg_rhs, arg_this)
              /\ c.value_first.lt = c.value_second.gt
              /\ c.value_first.lt = ~c.value_first.ge
              /\ c.value_first.gt = c.value_second.lt
              /\ c.value_first.le = c.value_second.ge
              /\ c.value_first.eq = ~c.value_first.ne
              /\ c.value_first.eq = c.value_second.eq
              /\ calls = <<>>
              /\ raised = NoException

\* -1 as i8 compared with the unsigned value 255: less, not equal, not
\* greater
C25_Witness ==
    /\ pc = "done"
    /\ op = "comparisons"
    /\ Bits = 8
    /\ arg_this = -1
    /\ arg_rhs = 255
    /\ \E c \in result :
          c.value_first.lt /\ c.value_first.ne /\ ~c.value_first.gt
              /\ c.value_second.gt

\* the width of the wider of the last binary operator's operands
WiderWidth == IF Bits >= arg_bits THEN Bits ELSE arg_bits

\* the exact result of the last binary +, - or *
BinaryExact ==
    CASE op \in BinaryOps("operator+") -> BinaryLhs + BinaryRhs
      [] op \in BinaryOps("operator-") -> BinaryLhs - BinaryRhs
      [] op \in BinaryOps("operator*") -> BinaryLhs * BinaryRhs

\* The last operation, if a binary operator named in ops, returned a result
\* of the wider operand's width; when the exact result fits that width it
\* is the result and nothing was notified; when it does not, the overflow
\* notifier ran and, after a handler returned, the result is the exact one
\* modulo 2^width.
BinaryPromotion(ops) ==
    (pc = "done" /\ op \in ops)
        => /\ \A c \in result : c.bits = WiderWidth
           /\ raised = NoException => result # {}
           /\ op \in BinaryOps("operator+") \cup BinaryOps("operator-")
                      \cup BinaryOps("operator*")
                 => IF in_range(WiderWidth, BinaryExact)
                    THEN /\ calls = <<>>
                         /\ raised = NoException
                         /\ \A c \in result : c.value = BinaryExact
                    ELSE IF signed_overflow_handler = NoHandler
                    THEN raised = OverflowException /\ calls = <<>>
                    ELSE /\ calls = <<Invocation(signed_overflow_handler,
                                                 "Overflow")>>
                         /\ \A c \in result :
                               IsWrapOf(WiderWidth, c.value, BinaryExact)
           /\ (/\ op \in BinaryOps("operator/") \cup BinaryOps("operator%")
               /\ BinaryRhs # 0
               /\ ~(BinaryLhs = min(WiderWidth) /\ BinaryRhs = -1))
                 => /\ calls = <<>>
                    /\ raised = NoException
                    /\ \A c \in result :
                          IF op \in BinaryOps("operator/")
                          THEN IsTruncatedQuotient(c.value, BinaryLhs,
                                                   BinaryRhs)
                          ELSE IsTruncatedQuotient(
                                   (BinaryLhs - c.value) \div BinaryRhs,
                                   BinaryLhs, BinaryRhs)
                               /\ (BinaryLhs - c.value) % Abs(BinaryRhs) = 0
           /\ (/\ op \in BinaryOps("operator/")
               /\ BinaryLhs = min(WiderWidth)
               /\ BinaryRhs = -1)
                 => NotifiedOverflow

\* C26: a binary +, -, *, / or % on operands of widths w1 and w2 (integer
\* values, or a value and a native signed integer) has a result of width
\* max(w1, w2); nothing is notified when the exact result fits that width,
\* and an overflow of it goes to the notifier and then wraps.
C26_BinaryPromotion ==
    BinaryPromotion(BinaryOps("operator+") \cup BinaryOps("operator-")
                        \cup BinaryOps("operator*")
                        \cup BinaryOps("operator/")
                        \cup BinaryOps("operator%"))

\* C28: binary operator- returns lhs - rhs in its three overloads: whenever
\* the exact difference fits the result width the returned value is that
\* difference and no notifier runs.
C28_BinaryMinus ==
    (/\ pc = "done"
     /\ op \in BinaryOps("operator-")
     /\ in_range(WiderWidth, BinaryLhs - BinaryRhs))
        => /\ calls = <<>>
           /\ raised = NoException
           /\ result = {[bits |-> WiderWidth, value |-> BinaryLhs - BinaryRhs]}

===========================================================================
